---- MODULE Spec2Model ----
(***************************************************************************)
(* asyncio_iter_tools: the two queue primitives (ClosableQueue,            *)
(* MultiConsumerQueue) and the two combinators built on them (_MixIter,    *)
(* _StreamSplitter), as a state machine under asyncio's cooperative         *)
(* scheduler.                                                              *)
(*                                                                         *)
(* A task runs without interruption from one suspension point to the next; *)
(* each such run is one action.  asyncio.Event is modelled by its flag     *)
(* and by the position of its waiters: a task suspended in Event.wait() is *)
(* at "put_wait"/"get_wait"; Event.set() resolves the waiters' futures,    *)
(* which moves them to "put_woken"/"get_woken"; a woken task resumes after *)
(* the wait() whatever the flag has become meanwhile.  Event.wait() on a   *)
(* set flag returns without suspending.                                    *)
(*                                                                         *)
(* obj records which object the program under analysis has constructed;    *)
(* the fields of the other classes stay at their initial values.           *)
(***************************************************************************)
EXTENDS Integers, Sequences, FiniteSets

\* ---------------------------------------------------------------- bounds
MaxCap == 2
MaxSrcLen == 2
MaxKeys == 3

\* ----------------------------------------------------------------- tasks
Producers == {"p1", "p2"}
Consumers == {"c1", "c2"}
Tasks == Producers \cup Consumers

NoKey == -1

\* The keys callers register: the integers register() generates.
Keys == 0..(MaxKeys - 1)

VARIABLES
    obj,             \* class of the object under analysis
    pc,              \* task -> position
    arg,             \* task -> item of the put it is executing
    res,             \* task -> outcome of its last completed call
    src,             \* producer -> items its source has still to yield
    srcFails,        \* producer -> whether its source raises after its items
    source,          \* producer -> the items of its source at construction
    cq_queue, cq_maxsize, cq_closed, cq_event_full, cq_event_empty,
    mq_queue, mq_maxsize, mq_offsets, mq_keys, mq_closed,
    mq_event_full, mq_event_empty,
    key,             \* consumer -> its registered key, or NoKey
    mix_streams,     \* TRUE while _MixIter._streams is not yet ()
    mix_tasks, mix_running, mix_done,
    cb,              \* tasks whose done callback is scheduled and not yet run
    handle,          \* consumer -> whether it holds a live _TaskCleaner
    sp_stream,       \* TRUE while _StreamSplitter._stream is not None
    sp_task, sp_running, sp_done,
    \* history (not program state)
    stream,          \* items enqueued so far, in order
    delivered,       \* items a ClosableQueue.get has returned so far, in order
    seen,            \* consumer -> items its gets returned in its registration
    trimmed,         \* number of items _shift_offsets has deleted
    regAt,           \* consumer -> value of trimmed when it registered
    regLive          \* consumer -> whether it registered before the stream ended

taskVars == <<pc, arg, res>>
srcVars == <<src, srcFails, source>>
cqVars == <<cq_queue, cq_maxsize, cq_closed, cq_event_full, cq_event_empty>>
mqVars == <<mq_queue, mq_maxsize, mq_offsets, mq_keys, mq_closed,
            mq_event_full, mq_event_empty>>
mixVars == <<mix_streams, mix_tasks, mix_running, mix_done, cb>>
splitVars == <<sp_stream, sp_task, sp_running, sp_done>>
histVars == <<stream, delivered, seen, trimmed, regAt, regLive>>
vars == <<obj, taskVars, srcVars, cqVars, mqVars, key, handle, mixVars,
          splitVars, histVars>>

\* The items of producer p's source: distinct across sources and positions.
Tag(p) == IF p = "p1" THEN 1 ELSE 2
SourceOf(p, n) == [i \in 1..n |-> 10 * Tag(p) + i]

\* The longest source of producer p: the second source is one item shorter.
SrcLen(p) == IF p = "p1" THEN MaxSrcLen ELSE MaxSrcLen - 1

\* A busy task never yields, so nothing else is scheduled.
Scheduled == \A u \in Tasks : pc[u] # "spin"

\* Where a task goes when its put returns: a reader task loops to its
\* source's next item, a caller of the bare queue is done.
AfterPut == IF obj \in {"_MixIter", "_StreamSplitter"} THEN "src" ELSE "idle"

\* What a task keeps of its put's return value: a reader task discards it.
PutResult(t, b) ==
    IF obj \in {"_MixIter", "_StreamSplitter"} THEN res
    ELSE [res EXCEPT ![t] = b]

\* (mutant: set() resolves the future of one waiting task only)
EventSetMut(flag, p, from, to) ==
    IF flag \/ \A u \in Tasks : p[u] # from THEN p
    ELSE [p EXCEPT ![CHOOSE u \in Tasks : p[u] = from] = to]

\* asyncio.Event.set(): resolve the futures of the tasks waiting on it.
EventSet(flag, p, from, to) ==
    IF flag THEN p
    ELSE [u \in Tasks |-> IF p[u] = from THEN to ELSE p[u]]

\* ======================================================== ClosableQueue
CQqsize == Len(cq_queue)

CQempty == cq_queue = <<>>

\* (mutant: the capacity test is off by one)
CQfullMut == IF cq_maxsize <= 0 THEN FALSE ELSE CQqsize > cq_maxsize

CQfull == IF cq_maxsize <= 0 THEN FALSE ELSE CQqsize >= cq_maxsize

\* (mutant: pop() takes the item from the wrong end)
LeftmostMut(q) == q[Len(q)]

\* The item self._queue.popleft() returns.
Leftmost(q) == Head(q)

\* (mutant: the closed flag is not tested again after the wait)
CQputRunMut(t, item) ==
    IF CQfull /\ ~cq_closed
    THEN /\ pc' = [pc EXCEPT ![t] = IF cq_event_empty THEN "spin" ELSE "put_wait"]
         /\ arg' = [arg EXCEPT ![t] = item]
         /\ UNCHANGED <<res, cq_queue, cq_event_full, cq_event_empty, stream>>
    ELSE /\ cq_event_empty' = FALSE
         /\ cq_queue' = Append(cq_queue, item)
         /\ cq_event_full' = TRUE
         /\ pc' = [EventSet(cq_event_full, pc, "get_wait", "get_woken")
                      EXCEPT ![t] = AfterPut]
         /\ res' = PutResult(t, "True")
         /\ arg' = [arg EXCEPT ![t] = 0]
         /\ stream' = Append(stream, item)

\* put, from the loop test to the next suspension or to the return.
CQputRun(t, item) ==
    IF CQfull /\ ~cq_closed
    THEN /\ pc' = [pc EXCEPT ![t] = IF cq_event_empty THEN "spin" ELSE "put_wait"]
         /\ arg' = [arg EXCEPT ![t] = item]
         /\ UNCHANGED <<res, cq_queue, cq_event_full, cq_event_empty, stream>>
    ELSE IF cq_closed
    THEN /\ pc' = [pc EXCEPT ![t] = AfterPut]
         /\ res' = PutResult(t, "False")
         /\ arg' = [arg EXCEPT ![t] = 0]
         /\ UNCHANGED <<cq_queue, cq_event_full, cq_event_empty, stream>>
    ELSE /\ cq_event_empty' = FALSE
         /\ cq_queue' = Append(cq_queue, item)
         /\ cq_event_full' = TRUE
         /\ pc' = [EventSet(cq_event_full, pc, "get_wait", "get_woken")
                      EXCEPT ![t] = AfterPut]
         /\ res' = PutResult(t, "True")
         /\ arg' = [arg EXCEPT ![t] = 0]
         /\ stream' = Append(stream, item)

\* (mutant: a put from the call appends without setting _event_full)
CQputMut(t, item) ==
    IF cq_closed
    THEN /\ pc' = [pc EXCEPT ![t] = AfterPut]
         /\ res' = PutResult(t, "False")
         /\ UNCHANGED <<arg, cq_queue, cq_event_full, cq_event_empty, stream>>
    ELSE IF CQfull
    THEN CQputRun(t, item)
    ELSE /\ cq_event_empty' = FALSE
         /\ cq_queue' = Append(cq_queue, item)
         /\ pc' = [pc EXCEPT ![t] = AfterPut]
         /\ res' = PutResult(t, "True")
         /\ arg' = [arg EXCEPT ![t] = 0]
         /\ stream' = Append(stream, item)
         /\ UNCHANGED cq_event_full

\* put, from the call.
CQput(t, item) ==
    IF cq_closed
    THEN /\ pc' = [pc EXCEPT ![t] = AfterPut]
         /\ res' = PutResult(t, "False")
         /\ UNCHANGED <<arg, cq_queue, cq_event_full, cq_event_empty, stream>>
    ELSE CQputRun(t, item)

\* (mutant: get removes two items and returns the first)
CQgetRunMut(t) ==
    IF CQempty /\ ~cq_closed
    THEN /\ pc' = [pc EXCEPT ![t] = IF cq_event_full THEN "spin" ELSE "get_wait"]
         /\ UNCHANGED <<res, cq_queue, cq_event_full, cq_event_empty,
                        delivered, seen>>
    ELSE IF cq_queue = <<>> /\ cq_closed
    THEN /\ pc' = [pc EXCEPT ![t] = "idle"]
         /\ res' = [res EXCEPT ![t] = "EndOfStream"]
         /\ UNCHANGED <<cq_queue, cq_event_full, cq_event_empty,
                        delivered, seen>>
    ELSE /\ cq_queue' = SubSeq(cq_queue, 3, Len(cq_queue))
         /\ cq_event_empty' = TRUE
         /\ cq_event_full' = IF Len(cq_queue) <= 2 THEN FALSE ELSE cq_event_full
         /\ pc' = [EventSet(cq_event_empty, pc, "put_wait", "put_woken")
                      EXCEPT ![t] = "idle"]
         /\ res' = [res EXCEPT ![t] = "item"]
         /\ delivered' = Append(delivered, Leftmost(cq_queue))
         /\ seen' = [seen EXCEPT ![t] = Append(@, Leftmost(cq_queue))]

\* get, from the loop test to the next suspension or to the return.
CQgetRun(t) ==
    IF CQempty /\ ~cq_closed
    THEN /\ pc' = [pc EXCEPT ![t] = IF cq_event_full THEN "spin" ELSE "get_wait"]
         /\ UNCHANGED <<res, cq_queue, cq_event_full, cq_event_empty,
                        delivered, seen>>
    ELSE IF cq_queue = <<>> /\ cq_closed
    THEN /\ pc' = [pc EXCEPT ![t] = "idle"]
         /\ res' = [res EXCEPT ![t] = "EndOfStream"]
         /\ UNCHANGED <<cq_queue, cq_event_full, cq_event_empty,
                        delivered, seen>>
    ELSE /\ cq_queue' = Tail(cq_queue)
         /\ cq_event_empty' = TRUE
         /\ cq_event_full' = IF Tail(cq_queue) = <<>> THEN FALSE ELSE cq_event_full
         /\ pc' = [EventSet(cq_event_empty, pc, "put_wait", "put_woken")
                      EXCEPT ![t] = "idle"]
         /\ res' = [res EXCEPT ![t] = "item"]
         /\ delivered' = Append(delivered, Leftmost(cq_queue))
         /\ seen' = [seen EXCEPT ![t] = Append(@, Leftmost(cq_queue))]

\* (mutant: close does not set _event_full)
CQcloseMut ==
    /\ cq_closed' = TRUE
    /\ cq_event_empty' = TRUE
    /\ cq_event_full' = cq_event_full
    /\ pc' = EventSet(cq_event_empty, pc, "put_wait", "put_woken")

CQclose ==
    /\ cq_closed' = TRUE
    /\ cq_event_empty' = TRUE
    /\ cq_event_full' = TRUE
    /\ pc' = EventSet(cq_event_full,
                      EventSet(cq_event_empty, pc, "put_wait", "put_woken"),
                      "get_wait", "get_woken")

\* =================================================== MultiConsumerQueue
MQbuffer_size == Len(mq_queue)

\* (mutant: the capacity test is off by one)
MQfullMut == MQbuffer_size > mq_maxsize

MQfull == MQbuffer_size >= mq_maxsize

MQqsize(k) == Len(mq_queue) - mq_offsets[k]

\* (mutant: the test is off by one)
MQemptyMut(k) == mq_offsets[k] > Len(mq_queue)

MQempty(k) == mq_offsets[k] >= MQqsize(k)

\* (mutant: the buffer is trimmed to the fastest consumer)
MinOffsetMut(offs) ==
    IF DOMAIN offs = {} THEN 0
    ELSE CHOOSE m \in {offs[k] : k \in DOMAIN offs} :
             \A k \in DOMAIN offs : m >= offs[k]

\* min(self._offsets.values(), default=0)
MinOffset(offs) ==
    IF DOMAIN offs = {} THEN 0
    ELSE CHOOSE m \in {offs[k] : k \in DOMAIN offs} :
             \A k \in DOMAIN offs : m <= offs[k]

\* del self._queue[:consumed]
Trim(q, consumed) == SubSeq(q, consumed + 1, Len(q))

\* (mutant: _shift_offsets does not set _event_empty)
MQshift_offsetsMut(offs, ef, p) ==
    LET consumed == MinOffset(offs)
        q == Trim(mq_queue, consumed)
    IN  /\ mq_queue' = q
        /\ mq_offsets' = [k \in DOMAIN offs |-> offs[k] - consumed]
        /\ mq_event_empty' = mq_event_empty
        /\ mq_event_full' = IF q = <<>> THEN FALSE ELSE ef
        /\ pc' = p
        /\ trimmed' = trimmed + (Len(mq_queue) - Len(q))

\* _shift_offsets on the offsets offs (the caller has already updated them),
\* with ef the flag of _event_full and p the tasks' positions before it.
MQshift_offsets(offs, ef, p) ==
    LET consumed == MinOffset(offs)
        q == Trim(mq_queue, consumed)
    IN  /\ mq_queue' = q
        /\ mq_offsets' = [k \in DOMAIN offs |-> offs[k] - consumed]
        /\ mq_event_empty' = TRUE
        /\ mq_event_full' = IF q = <<>> THEN FALSE ELSE ef
        /\ pc' = EventSet(mq_event_empty, p, "put_wait", "put_woken")
        /\ trimmed' = trimmed + (Len(mq_queue) - Len(q))

\* (mutant: the assert is missing, a registered key is registered again)
MQregisterKeyMut(c, k, live) ==
    /\ mq_offsets' = [j \in DOMAIN mq_offsets \cup {k} |->
                         IF j = k THEN 0 ELSE mq_offsets[j]]
    /\ key' = [key EXCEPT ![c] = k]
    /\ seen' = [seen EXCEPT ![c] = <<>>]
    /\ regAt' = [regAt EXCEPT ![c] = trimmed]
    /\ regLive' = [regLive EXCEPT ![c] = live]
    /\ res' = res

\* register(key), from the assert on: a registered key fails the assert, a
\* new one gets offset 0.  live is recorded with the registration: whether
\* the stream had not ended when it was made.
MQregisterKey(c, k, live) ==
    IF k \in DOMAIN mq_offsets
    THEN /\ res' = [res EXCEPT ![c] = "AssertionError"]
         /\ UNCHANGED <<mq_offsets, key, seen, regAt, regLive>>
    ELSE /\ mq_offsets' = [j \in DOMAIN mq_offsets \cup {k} |->
                              IF j = k THEN 0 ELSE mq_offsets[j]]
         /\ key' = [key EXCEPT ![c] = k]
         /\ seen' = [seen EXCEPT ![c] = <<>>]
         /\ regAt' = [regAt EXCEPT ![c] = trimmed]
         /\ regLive' = [regLive EXCEPT ![c] = live]
         /\ res' = res

\* register(): the key is generated from _keys, which is advanced before
\* the assert.
MQregister(c, live) ==
    /\ mq_keys' = mq_keys + 1
    /\ MQregisterKey(c, mq_keys, live)

\* self._offsets[key] and self._offsets.pop(key) on a key that is not in
\* the map: KeyError, raised before anything is changed.
MQKeyError(c) ==
    /\ res' = [res EXCEPT ![c] = "KeyError"]
    /\ UNCHANGED <<pc, arg, mqVars, key, histVars>>

\* (mutant: unregister does not call _shift_offsets)
MQunregisterMut(c) ==
    /\ mq_offsets' = [k \in DOMAIN mq_offsets \ {key[c]} |-> mq_offsets[k]]
    /\ UNCHANGED <<mq_queue, mq_event_empty, mq_event_full, pc, trimmed>>
    /\ key' = [key EXCEPT ![c] = NoKey]
    /\ seen' = [seen EXCEPT ![c] = <<>>]
    /\ regAt' = [regAt EXCEPT ![c] = 0]
    /\ regLive' = [regLive EXCEPT ![c] = FALSE]

MQunregister(c) ==
    /\ MQshift_offsets([k \in DOMAIN mq_offsets \ {key[c]} |-> mq_offsets[k]],
                       mq_event_full, pc)
    /\ key' = [key EXCEPT ![c] = NoKey]
    /\ seen' = [seen EXCEPT ![c] = <<>>]
    /\ regAt' = [regAt EXCEPT ![c] = 0]
    /\ regLive' = [regLive EXCEPT ![c] = FALSE]

\* (mutant: close flips the closed flag instead of setting it)
MQcloseMut ==
    /\ mq_closed' = ~mq_closed
    /\ mq_event_full' = TRUE
    /\ mq_event_empty' = TRUE
    /\ pc' = EventSet(mq_event_empty,
                      EventSet(mq_event_full, pc, "get_wait", "get_woken"),
                      "put_wait", "put_woken")

MQclose ==
    /\ mq_closed' = TRUE
    /\ mq_event_full' = TRUE
    /\ mq_event_empty' = TRUE
    /\ pc' = EventSet(mq_event_empty,
                      EventSet(mq_event_full, pc, "get_wait", "get_woken"),
                      "put_wait", "put_woken")

\* put, from the loop test, with ee the flag of _event_empty at that point.
\* A wait() on a set flag returns at once, the flag is cleared and the loop
\* test, unchanged, is made again: the task suspends with the flag clear.
MQputRun(t, item, ee) ==
    IF MQfull /\ ~mq_closed
    THEN /\ pc' = [pc EXCEPT ![t] = "put_wait"]
         /\ arg' = [arg EXCEPT ![t] = item]
         /\ mq_event_empty' = FALSE
         /\ UNCHANGED <<res, mq_queue, mq_event_full, stream>>
    ELSE IF mq_closed
    THEN /\ pc' = [pc EXCEPT ![t] = AfterPut]
         /\ res' = PutResult(t, "False")
         /\ arg' = [arg EXCEPT ![t] = 0]
         /\ mq_event_empty' = ee
         /\ UNCHANGED <<mq_queue, mq_event_full, stream>>
    ELSE /\ mq_queue' = Append(mq_queue, item)
         /\ mq_event_full' = TRUE
         /\ mq_event_empty' = ee
         /\ pc' = [EventSet(mq_event_full, pc, "get_wait", "get_woken")
                      EXCEPT ![t] = AfterPut]
         /\ res' = PutResult(t, "True")
         /\ arg' = [arg EXCEPT ![t] = 0]
         /\ stream' = Append(stream, item)

MQput(t, item) ==
    IF mq_closed
    THEN /\ pc' = [pc EXCEPT ![t] = AfterPut]
         /\ res' = PutResult(t, "False")
         /\ UNCHANGED <<arg, mq_queue, mq_event_full, mq_event_empty, stream>>
    ELSE MQputRun(t, item, mq_event_empty)

\* get, from the loop test, with ef the flag of _event_full at that point.
MQgetRun(t, ef) ==
    LET k == key[t]
        idx == mq_offsets[k]
    IN  IF MQempty(k) /\ ~mq_closed
        THEN /\ pc' = [pc EXCEPT ![t] = "get_wait"]
             /\ mq_event_full' = FALSE
             /\ UNCHANGED <<res, mq_queue, mq_offsets, mq_event_empty,
                            seen, trimmed>>
        ELSE IF MQqsize(k) = 0 /\ mq_closed
        THEN /\ pc' = [pc EXCEPT ![t] = "idle"]
             /\ res' = [res EXCEPT ![t] = "EndOfStream"]
             /\ mq_event_full' = ef
             /\ UNCHANGED <<mq_queue, mq_offsets, mq_event_empty,
                            seen, trimmed>>
        ELSE IF idx >= Len(mq_queue)
        THEN /\ pc' = [pc EXCEPT ![t] = "idle"]
             /\ res' = [res EXCEPT ![t] = "IndexError"]
             /\ mq_event_full' = ef
             /\ UNCHANGED <<mq_queue, mq_offsets, mq_event_empty,
                            seen, trimmed>>
        ELSE /\ MQshift_offsets([mq_offsets EXCEPT ![k] = idx + 1], ef,
                                [pc EXCEPT ![t] = "idle"])
             /\ res' = [res EXCEPT ![t] = "item"]
             /\ seen' = [seen EXCEPT ![t] = Append(@, mq_queue[idx + 1])]

\* ============================================ calls on the bare queues
\* The callers of a bare queue: each producer puts the items of its source
\* one call at a time, each consumer gets, anyone closes.

CQPutCall(p) ==
    /\ obj = "ClosableQueue" /\ Scheduled
    /\ pc[p] = "idle" /\ src[p] # <<>>
    /\ src' = [src EXCEPT ![p] = Tail(@)]
    /\ CQput(p, Head(src[p]))
    /\ UNCHANGED <<obj, srcFails, source, cq_maxsize, cq_closed, mqVars, key,
                   handle, mixVars, splitVars, delivered, seen, trimmed, regAt, regLive>>

\* A task woken from _event_empty.wait() makes the loop test again.
CQPutResume(p) ==
    /\ obj \in {"ClosableQueue", "_MixIter"} /\ Scheduled
    /\ pc[p] = "put_woken"
    /\ CQputRun(p, arg[p])
    /\ UNCHANGED <<obj, srcVars, cq_maxsize, cq_closed, mqVars, key,
                   handle, mixVars, splitVars, delivered, seen, trimmed, regAt, regLive>>

CQGetCall(c) ==
    /\ obj = "ClosableQueue" /\ Scheduled
    /\ pc[c] = "idle"
    /\ CQgetRun(c)
    /\ UNCHANGED <<obj, arg, srcVars, cq_maxsize, cq_closed, mqVars, key,
                   handle, mixVars, splitVars, stream, trimmed, regAt, regLive>>

\* A task woken from _event_full.wait() makes the loop test again.
CQGetResume(c) ==
    /\ obj \in {"ClosableQueue", "_MixIter"} /\ Scheduled
    /\ pc[c] = "get_woken"
    /\ CQgetRun(c)
    /\ UNCHANGED <<obj, arg, srcVars, cq_maxsize, cq_closed, mqVars, key,
                   handle, mixVars, splitVars, stream, trimmed, regAt, regLive>>

CQCloseCall ==
    /\ obj = "ClosableQueue" /\ Scheduled
    /\ CQclose
    /\ UNCHANGED <<obj, arg, res, srcVars, cq_queue, cq_maxsize, mqVars,
                   key, handle, mixVars, splitVars, histVars>>

MQRegisterCall(c) ==
    /\ obj = "MultiConsumerQueue"
    /\ key[c] = NoKey /\ pc[c] = "idle" /\ mq_keys < MaxKeys
    /\ MQregister(c, ~mq_closed)
    /\ UNCHANGED <<obj, pc, arg, srcVars, cqVars, mq_queue, mq_maxsize,
                   mq_closed, mq_event_full, mq_event_empty, handle, mixVars,
                   splitVars, stream, delivered, trimmed>>

\* register(key) with a key the caller chose: one that is registered, or,
\* for a caller that holds none, the key register() is to generate next.
MQRegisterKeyCall(c, k) ==
    /\ obj = "MultiConsumerQueue"
    /\ pc[c] = "idle"
    /\ (key[c] = NoKey /\ k = mq_keys) \/ k \in DOMAIN mq_offsets
    /\ MQregisterKey(c, k, ~mq_closed)
    /\ UNCHANGED <<obj, pc, arg, srcVars, cqVars, mq_queue, mq_maxsize,
                   mq_keys, mq_closed, mq_event_full, mq_event_empty, handle,
                   mixVars, splitVars, stream, delivered, trimmed>>

\* The key of a call with an unregistered key: which of the unregistered
\* keys it is makes no difference to the call, the least one stands for all.
UnknownKey ==
    CHOOSE k \in Keys :
        /\ k \notin DOMAIN mq_offsets
        /\ \A j \in Keys : j \notin DOMAIN mq_offsets => k <= j

\* unregister(key) with a key that is not registered, by a caller that
\* holds none.
MQUnregisterUnknownCall(c, k) ==
    /\ obj = "MultiConsumerQueue"
    /\ pc[c] = "idle" /\ key[c] = NoKey /\ k \notin DOMAIN mq_offsets
    /\ MQKeyError(c)
    /\ UNCHANGED <<obj, srcVars, cqVars, handle, mixVars, splitVars>>

\* qsize(key), empty(key) or get(key) with a key that is not registered, by
\* a caller that holds none.
MQQueryUnknownCall(c, k) ==
    /\ obj = "MultiConsumerQueue"
    /\ pc[c] = "idle" /\ key[c] = NoKey /\ k \notin DOMAIN mq_offsets
    /\ MQKeyError(c)
    /\ UNCHANGED <<obj, srcVars, cqVars, handle, mixVars, splitVars>>

MQUnregisterCall(c) ==
    /\ obj = "MultiConsumerQueue"
    /\ key[c] # NoKey /\ pc[c] = "idle"
    /\ MQunregister(c)
    /\ UNCHANGED <<obj, arg, res, srcVars, cqVars, mq_maxsize, mq_keys,
                   mq_closed, handle, mixVars, splitVars, stream, delivered>>

MQPutCall(p) ==
    /\ obj = "MultiConsumerQueue"
    /\ pc[p] = "idle" /\ src[p] # <<>>
    /\ src' = [src EXCEPT ![p] = Tail(@)]
    /\ MQput(p, Head(src[p]))
    /\ UNCHANGED <<obj, srcFails, source, cqVars, mq_maxsize, mq_offsets, mq_keys,
                   mq_closed, key, handle, mixVars, splitVars, delivered, seen,
                   trimmed, regAt, regLive>>

\* A task woken from _event_empty.wait() clears the event and makes the
\* loop test again.
MQPutResume(p) ==
    /\ obj \in {"MultiConsumerQueue", "_StreamSplitter"}
    /\ pc[p] = "put_woken"
    /\ MQputRun(p, arg[p], FALSE)
    /\ UNCHANGED <<obj, srcVars, cqVars, mq_maxsize, mq_offsets, mq_keys,
                   mq_closed, key, handle, mixVars, splitVars, delivered, seen,
                   trimmed, regAt, regLive>>

MQGetCall(c) ==
    /\ obj = "MultiConsumerQueue"
    /\ key[c] # NoKey /\ pc[c] = "idle"
    /\ MQgetRun(c, mq_event_full)
    /\ UNCHANGED <<obj, arg, srcVars, cqVars, mq_maxsize, mq_keys, mq_closed,
                   key, handle, mixVars, splitVars, stream, delivered, regAt, regLive>>

\* A task woken from _event_full.wait() clears the event and makes the loop
\* test again.
MQGetResume(c) ==
    /\ obj \in {"MultiConsumerQueue", "_StreamSplitter"}
    /\ pc[c] = "get_woken"
    /\ MQgetRun(c, FALSE)
    /\ UNCHANGED <<obj, arg, srcVars, cqVars, mq_maxsize, mq_keys, mq_closed,
                   key, handle, mixVars, splitVars, stream, delivered, regAt, regLive>>

MQCloseCall ==
    /\ obj = "MultiConsumerQueue"
    /\ MQclose
    /\ UNCHANGED <<obj, arg, res, srcVars, cqVars, mq_queue, mq_maxsize,
                   mq_offsets, mq_keys, key, handle, mixVars, splitVars,
                   histVars>>

\* ============================================================== tasks
\* task.cancel() has an effect on a task that is not done: CancelledError is
\* thrown into it at the await it is suspended on, when it next runs.
Cancellable(t) == pc[t] \in {"start", "src", "put_wait", "put_woken"}

\* The first run of a reader task: it enters its "async for" and awaits the
\* source's first item.
ReaderStart(r) ==
    /\ pc[r] = "start"
    /\ pc' = [pc EXCEPT ![r] = "src"]
    /\ UNCHANGED <<obj, arg, res, srcVars, cqVars, mqVars, key, handle,
                   mixVars, splitVars, histVars>>

\* A cancelled task runs: the CancelledError ends _MixIter._reader, the
\* item it was putting is dropped, and its done callback is scheduled.
TaskCancelled(r) ==
    /\ pc[r] = "cancel_req"
    /\ pc' = [pc EXCEPT ![r] = "cancelled"]
    /\ arg' = [arg EXCEPT ![r] = 0]
    /\ cb' = cb \cup {r}
    /\ UNCHANGED <<obj, res, srcVars, cqVars, mqVars, key, handle,
                   mix_streams, mix_tasks, mix_running, mix_done, splitVars,
                   histVars>>

\* ============================================================ _MixIter
\* (mutant: __aiter__ creates the reader tasks whenever _running <= 0)
MixAiterMut(c) ==
    /\ obj = "_MixIter" /\ Scheduled
    /\ ~handle[c] /\ pc[c] = "idle"
    /\ IF mix_running <= 0
       THEN /\ mix_running' = mix_running + 1
            /\ pc' = [t \in Tasks |-> IF t \in Producers THEN "start" ELSE pc[t]]
            /\ mix_tasks' = mix_tasks \cup Producers
            /\ mix_streams' = FALSE
       ELSE UNCHANGED <<mix_running, pc, mix_tasks, mix_streams>>
    /\ handle' = [handle EXCEPT ![c] = TRUE]
    /\ UNCHANGED <<obj, arg, res, srcVars, cqVars, mqVars, key, mix_done,
                   cb, splitVars, histVars>>

\* __aiter__: a consumer acquires a _TaskCleaner handle.
MixAiter(c) ==
    /\ obj = "_MixIter" /\ Scheduled
    /\ ~handle[c] /\ pc[c] = "idle"
    /\ IF mix_running <= 0
       THEN /\ mix_running' = mix_running + 1
            /\ pc' = [t \in Tasks |->
                         IF mix_streams /\ t \in Producers THEN "start" ELSE pc[t]]
            /\ mix_tasks' = IF mix_streams THEN mix_tasks \cup Producers
                            ELSE mix_tasks
            /\ mix_streams' = FALSE
       ELSE UNCHANGED <<mix_running, pc, mix_tasks, mix_streams>>
    /\ handle' = [handle EXCEPT ![c] = TRUE]
    /\ UNCHANGED <<obj, arg, res, srcVars, cqVars, mqVars, key, mix_done,
                   cb, splitVars, histVars>>

\* (mutant: _cleanup empties _tasks without cancelling them)
MixCleanupMut(c) ==
    /\ obj = "_MixIter" /\ Scheduled
    /\ handle[c] /\ pc[c] = "idle"
    /\ handle' = [handle EXCEPT ![c] = FALSE]
    /\ mix_running' = mix_running - 1
    /\ mix_tasks' = IF mix_running - 1 <= 0 THEN {} ELSE mix_tasks
    /\ UNCHANGED <<obj, pc, arg, res, srcVars, cqVars, mqVars, key,
                   mix_streams, mix_done, cb, splitVars, histVars>>

\* _cleanup, run by the finalizer of a handle nothing refers to any more.
MixCleanup(c) ==
    /\ obj = "_MixIter" /\ Scheduled
    /\ handle[c] /\ pc[c] = "idle"
    /\ handle' = [handle EXCEPT ![c] = FALSE]
    /\ mix_running' = mix_running - 1
    /\ IF mix_running - 1 <= 0
       THEN /\ mix_tasks' = {}
            /\ pc' = [t \in Tasks |->
                         IF t \in mix_tasks /\ Cancellable(t) THEN "cancel_req"
                         ELSE pc[t]]
       ELSE UNCHANGED <<mix_tasks, pc>>
    /\ UNCHANGED <<obj, arg, res, srcVars, cqVars, mqVars, key,
                   mix_streams, mix_done, cb, splitVars, histVars>>

\* _TaskCleaner.__anext__ -> _next: a get on the shared queue.
MixNext(c) ==
    /\ obj = "_MixIter" /\ Scheduled
    /\ handle[c] /\ pc[c] = "idle"
    /\ CQgetRun(c)
    /\ UNCHANGED <<obj, arg, srcVars, cq_maxsize, cq_closed, mqVars, key,
                   handle, mixVars, splitVars, stream, trimmed, regAt, regLive>>

\* (mutant: _reader drops the item instead of waiting when the queue is full)
MixReaderPutMut(r) ==
    /\ obj = "_MixIter" /\ Scheduled
    /\ pc[r] = "src" /\ src[r] # <<>>
    /\ src' = [src EXCEPT ![r] = Tail(@)]
    /\ IF CQfull /\ ~cq_closed
       THEN UNCHANGED <<pc, arg, res, cq_queue, cq_event_full, cq_event_empty,
                        stream>>
       ELSE CQput(r, Head(src[r]))
    /\ UNCHANGED <<obj, srcFails, source, cq_maxsize, cq_closed, mqVars, key,
                   handle, mixVars, splitVars, delivered, seen, trimmed, regAt, regLive>>

\* _reader: the source yields an item and the task puts it.
MixReaderPut(r) ==
    /\ obj = "_MixIter" /\ Scheduled
    /\ pc[r] = "src" /\ src[r] # <<>>
    /\ src' = [src EXCEPT ![r] = Tail(@)]
    /\ CQput(r, Head(src[r]))
    /\ UNCHANGED <<obj, srcFails, source, cq_maxsize, cq_closed, mqVars, key,
                   handle, mixVars, splitVars, delivered, seen, trimmed, regAt, regLive>>

\* (mutant: a task whose source raised does not get its done callback)
MixReaderEndMut(r) ==
    /\ obj = "_MixIter" /\ Scheduled
    /\ pc[r] = "src" /\ src[r] = <<>>
    /\ pc' = [pc EXCEPT ![r] = IF srcFails[r] THEN "failed" ELSE "finished"]
    /\ cb' = IF srcFails[r] THEN cb ELSE cb \cup {r}
    /\ UNCHANGED <<obj, arg, res, srcVars, cqVars, mqVars, key, handle,
                   mix_streams, mix_tasks, mix_running, mix_done, splitVars,
                   histVars>>

\* _reader: the source is exhausted, or raises; the task is done and its
\* done callback is scheduled.
MixReaderEnd(r) ==
    /\ obj = "_MixIter" /\ Scheduled
    /\ pc[r] = "src" /\ src[r] = <<>>
    /\ pc' = [pc EXCEPT ![r] = IF srcFails[r] THEN "failed" ELSE "finished"]
    /\ cb' = cb \cup {r}
    /\ UNCHANGED <<obj, arg, res, srcVars, cqVars, mqVars, key, handle,
                   mix_streams, mix_tasks, mix_running, mix_done, splitVars,
                   histVars>>

\* (mutant: _on_done closes the queue one task too early)
MixOnDoneMut(r) ==
    /\ obj = "_MixIter" /\ Scheduled
    /\ r \in cb
    /\ cb' = cb \ {r}
    /\ mix_tasks' = mix_tasks \ {r}
    /\ mix_done' = mix_done - 1
    /\ IF mix_done - 1 <= 1
       THEN CQclose
       ELSE UNCHANGED <<cq_closed, cq_event_empty, cq_event_full, pc>>
    /\ UNCHANGED <<obj, arg, res, srcVars, cq_queue, cq_maxsize, mqVars,
                   key, handle, mix_streams, mix_running, splitVars, histVars>>

\* _on_done, the done callback of a reader task.
MixOnDone(r) ==
    /\ obj = "_MixIter" /\ Scheduled
    /\ r \in cb
    /\ cb' = cb \ {r}
    /\ mix_tasks' = mix_tasks \ {r}
    /\ mix_done' = mix_done - 1
    /\ IF mix_done - 1 <= 0
       THEN CQclose
       ELSE UNCHANGED <<cq_closed, cq_event_empty, cq_event_full, pc>>
    /\ UNCHANGED <<obj, arg, res, srcVars, cq_queue, cq_maxsize, mqVars,
                   key, handle, mix_streams, mix_running, splitVars, histVars>>

\* ====================================================== _StreamSplitter
\* __aiter__: a consumer acquires a _TaskCleaner handle with its own key.
SplitAiter(c) ==
    /\ obj = "_StreamSplitter"
    /\ ~handle[c] /\ pc[c] = "idle" /\ mq_keys < MaxKeys
    /\ IF sp_running <= 0
       THEN /\ sp_running' = sp_running + 1
            /\ pc' = [pc EXCEPT !["p1"] = "start"]
            /\ sp_task' = "p1"
            /\ sp_stream' = FALSE
       ELSE UNCHANGED <<sp_running, pc, sp_task, sp_stream>>
    /\ MQregister(c, ~mq_closed /\ src["p1"] # <<>>)
    /\ handle' = [handle EXCEPT ![c] = TRUE]
    /\ UNCHANGED <<obj, arg, srcVars, cqVars, mq_queue, mq_maxsize,
                   mq_closed, mq_event_full, mq_event_empty, mixVars, sp_done,
                   stream, delivered, trimmed>>

\* (mutant: _cleanup also decrements _running, as _MixIter._cleanup does)
SplitCleanupMut(c) ==
    /\ obj = "_StreamSplitter"
    /\ handle[c] /\ pc[c] = "idle"
    /\ MQunregister(c)
    /\ handle' = [handle EXCEPT ![c] = FALSE]
    /\ sp_running' = sp_running - 1
    /\ UNCHANGED <<obj, arg, res, srcVars, cqVars, mq_maxsize, mq_keys,
                   mq_closed, mixVars, sp_stream, sp_task, sp_done, stream,
                   delivered>>

\* _cleanup(key), run by the finalizer of a handle nothing refers to any more.
SplitCleanup(c) ==
    /\ obj = "_StreamSplitter"
    /\ handle[c] /\ pc[c] = "idle"
    /\ MQunregister(c)
    /\ handle' = [handle EXCEPT ![c] = FALSE]
    /\ UNCHANGED <<obj, arg, res, srcVars, cqVars, mq_maxsize, mq_keys,
                   mq_closed, mixVars, splitVars, stream, delivered>>

\* _TaskCleaner.__anext__ -> _next(key): a get on the shared buffer.
SplitNext(c) ==
    /\ obj = "_StreamSplitter"
    /\ handle[c] /\ pc[c] = "idle"
    /\ MQgetRun(c, mq_event_full)
    /\ UNCHANGED <<obj, arg, srcVars, cqVars, mq_maxsize, mq_keys, mq_closed,
                   key, handle, mixVars, splitVars, stream, delivered, regAt, regLive>>

\* _reader: the source yields an item and the task puts it.
SplitReaderPut(r) ==
    /\ obj = "_StreamSplitter"
    /\ pc[r] = "src" /\ src[r] # <<>>
    /\ src' = [src EXCEPT ![r] = Tail(@)]
    /\ MQput(r, Head(src[r]))
    /\ UNCHANGED <<obj, srcFails, source, cqVars, mq_maxsize, mq_offsets, mq_keys,
                   mq_closed, key, handle, mixVars, splitVars, delivered, seen,
                   trimmed, regAt, regLive>>

\* (mutant: the finally block of _reader does not close the queue)
SplitReaderEndMut(r) ==
    /\ obj = "_StreamSplitter"
    /\ pc[r] = "src" /\ src[r] = <<>>
    /\ sp_done' = TRUE
    /\ sp_task' = "None"
    /\ pc' = [pc EXCEPT ![r] = IF srcFails[r] THEN "failed" ELSE "finished"]
    /\ UNCHANGED <<obj, arg, res, srcVars, cqVars, mqVars, key, handle,
                   mixVars, sp_stream, sp_running, histVars>>

\* _reader: the source is exhausted, or raises; the finally block runs.
SplitReaderEnd(r) ==
    /\ obj = "_StreamSplitter"
    /\ pc[r] = "src" /\ src[r] = <<>>
    /\ sp_done' = TRUE
    /\ sp_task' = "None"
    /\ mq_closed' = TRUE
    /\ mq_event_full' = TRUE
    /\ mq_event_empty' = TRUE
    /\ pc' = [EventSet(mq_event_full, pc, "get_wait", "get_woken")
                 EXCEPT ![r] = IF srcFails[r] THEN "failed" ELSE "finished"]
    /\ UNCHANGED <<obj, arg, res, srcVars, cqVars, mq_queue, mq_maxsize,
                   mq_offsets, mq_keys, key, handle, mixVars, sp_stream,
                   sp_running, histVars>>

\* ================================================================ Init
InitCommon ==
    /\ arg = [t \in Tasks |-> 0]
    /\ res = [t \in Tasks |-> "none"]
    /\ cq_queue = <<>> /\ cq_closed = FALSE
    /\ cq_event_full = FALSE /\ cq_event_empty = FALSE
    /\ mq_queue = <<>> /\ mq_offsets = <<>> /\ mq_keys = 0 /\ mq_closed = FALSE
    /\ mq_event_full = FALSE /\ mq_event_empty = FALSE
    /\ key = [c \in Consumers |-> NoKey]
    /\ handle = [c \in Consumers |-> FALSE]
    /\ mix_streams = TRUE /\ mix_tasks = {} /\ mix_running = 0
    /\ mix_done = Cardinality(Producers)
    /\ cb = {}
    /\ sp_stream = TRUE /\ sp_task = "None" /\ sp_running = 0 /\ sp_done = FALSE
    /\ stream = <<>> /\ delivered = <<>>
    /\ seen = [c \in Consumers |-> <<>>]
    /\ trimmed = 0
    /\ regAt = [c \in Consumers |-> 0]
    /\ regLive = [c \in Consumers |-> FALSE]

\* ClosableQueue(maxsize): callers put the items of full-length sources.
InitClosableQueue ==
    /\ obj = "ClosableQueue"
    /\ cq_maxsize \in 0..MaxCap
    /\ mq_maxsize = 1
    /\ pc = [t \in Tasks |-> "idle"]
    /\ src = [p \in Producers |-> SourceOf(p, SrcLen(p))]
    /\ srcFails = [p \in Producers |-> FALSE]
    /\ source = src

\* MultiConsumerQueue(buffer_size).  The queue has one writer, as in split.py
\* where only _reader puts: p1 puts MaxSrcLen + 1 items, p2 has nothing to put.
InitMultiConsumerQueue ==
    /\ obj = "MultiConsumerQueue"
    /\ cq_maxsize = 0
    /\ mq_maxsize \in 1..MaxCap
    /\ pc = [t \in Tasks |-> "idle"]
    /\ src = [p \in Producers |->
                 IF p = "p1" THEN SourceOf(p, MaxSrcLen + 1) ELSE <<>>]
    /\ srcFails = [p \in Producers |-> FALSE]
    /\ source = src

\* _MixIter(streamA, streamB): the shared queue has maxsize=len(streams).
\* The two sources have at most MaxSrcLen + 1 items between them.
InitMixIter ==
    /\ obj = "_MixIter"
    /\ cq_maxsize = Cardinality(Producers)
    /\ mq_maxsize = 1
    /\ pc = [t \in Tasks |-> IF t \in Producers THEN "none" ELSE "idle"]
    /\ \E n \in [Producers -> 0..MaxSrcLen] :
           /\ \A p \in Producers : n[p] <= SrcLen(p)
           /\ n["p1"] + n["p2"] <= MaxSrcLen + 1
           /\ src = [p \in Producers |-> SourceOf(p, n[p])]
    /\ srcFails \in [Producers -> BOOLEAN]
    /\ source = src

\* _StreamSplitter(stream, buffer_size): one source, read by task p1.
InitStreamSplitter ==
    /\ obj = "_StreamSplitter"
    /\ cq_maxsize = 0
    /\ mq_maxsize \in 1..MaxCap
    /\ pc = [t \in Tasks |-> IF t \in Producers THEN "none" ELSE "idle"]
    /\ \E n \in 0..MaxSrcLen, f \in BOOLEAN :
           /\ src = [p \in Producers |->
                        IF p = "p1" THEN SourceOf(p, n) ELSE <<>>]
           /\ srcFails = [p \in Producers |-> p = "p1" /\ f]
    /\ source = src

Init ==
    /\ InitCommon
    /\ \/ InitClosableQueue
       \/ InitMultiConsumerQueue
       \/ InitMixIter
       \/ InitStreamSplitter

Next ==
    \/ \E p \in Producers : CQPutCall(p)
    \/ \E p \in Producers : CQPutResume(p)
    \/ \E c \in Consumers : CQGetCall(c)
    \/ \E c \in Consumers : CQGetResume(c)
    \/ CQCloseCall
    \/ \E c \in Consumers : MQRegisterCall(c)
    \/ \E c \in Consumers : MQUnregisterCall(c)
    \/ \E p \in Producers : MQPutCall(p)
    \/ \E p \in Producers : MQPutResume(p)
    \/ \E c \in Consumers : MQGetCall(c)
    \/ \E c \in Consumers : MQGetResume(c)
    \/ MQCloseCall
    \/ \E c \in Consumers, k \in Keys : MQRegisterKeyCall(c, k)
    \/ \E c \in Consumers : MQUnregisterUnknownCall(c, UnknownKey)
    \/ \E c \in Consumers : MQQueryUnknownCall(c, UnknownKey)
    \/ \E r \in Producers : ReaderStart(r)
    \/ \E r \in Producers : TaskCancelled(r)
    \/ \E c \in Consumers : MixAiter(c)
    \/ \E c \in Consumers : MixCleanup(c)
    \/ \E c \in Consumers : MixNext(c)
    \/ \E r \in Producers : MixReaderPut(r)
    \/ \E r \in Producers : MixReaderEnd(r)
    \/ \E r \in Producers : MixOnDone(r)
    \/ \E c \in Consumers : SplitAiter(c)
    \/ \E c \in Consumers : SplitCleanup(c)
    \/ \E c \in Consumers : SplitNext(c)
    \/ \E r \in Producers : SplitReaderPut(r)
    \/ \E r \in Producers : SplitReaderEnd(r)

Spec == Init /\ [][Next]_vars

\* ----------------------------------------------- one object at a time
NextClosableQueue ==
    \/ \E p \in Producers : CQPutCall(p)
    \/ \E p \in Producers : CQPutResume(p)
    \/ \E c \in Consumers : CQGetCall(c)
    \/ \E c \in Consumers : CQGetResume(c)
    \/ CQCloseCall

InitCQ == InitCommon /\ InitClosableQueue

SpecClosableQueue == InitCQ /\ [][NextClosableQueue]_vars

\* The event loop runs every task whose future is resolved.
LiveClosableQueue ==
    /\ SpecClosableQueue
    /\ \A p \in Producers : WF_vars(CQPutResume(p))
    /\ \A c \in Consumers : WF_vars(CQGetResume(c))

NextMultiConsumerQueue ==
    \/ \E c \in Consumers : MQRegisterCall(c)
    \/ \E c \in Consumers : MQUnregisterCall(c)
    \/ \E p \in Producers : MQPutCall(p)
    \/ \E p \in Producers : MQPutResume(p)
    \/ \E c \in Consumers : MQGetCall(c)
    \/ \E c \in Consumers : MQGetResume(c)
    \/ MQCloseCall

InitMQ == InitCommon /\ InitMultiConsumerQueue

SpecMultiConsumerQueue == InitMQ /\ [][NextMultiConsumerQueue]_vars

\* The MultiConsumerQueue with callers that also choose their keys.
NextMQKeys ==
    \/ NextMultiConsumerQueue
    \/ \E c \in Consumers, k \in Keys : MQRegisterKeyCall(c, k)
    \/ \E c \in Consumers : MQUnregisterUnknownCall(c, UnknownKey)
    \/ \E c \in Consumers : MQQueryUnknownCall(c, UnknownKey)

\* MultiConsumerQueue(), with the default buffer_size of 1, for the callers
\* that choose their keys; its writer has MaxSrcLen items to put.
InitMQKeys ==
    /\ InitCommon
    /\ obj = "MultiConsumerQueue"
    /\ cq_maxsize = 0
    /\ mq_maxsize = 1
    /\ pc = [t \in Tasks |-> "idle"]
    /\ src = [p \in Producers |->
                 IF p = "p1" THEN SourceOf(p, MaxSrcLen) ELSE <<>>]
    /\ srcFails = [p \in Producers |-> FALSE]
    /\ source = src

SpecMQKeys == InitMQKeys /\ [][NextMQKeys]_vars

InitQueues == InitCQ \/ InitMQ

NextQueues == NextClosableQueue \/ NextMultiConsumerQueue

SpecQueues == InitQueues /\ [][NextQueues]_vars

NextMixIter ==
    \/ \E r \in Producers : ReaderStart(r)
    \/ \E r \in Producers : TaskCancelled(r)
    \/ \E c \in Consumers : MixAiter(c)
    \/ \E c \in Consumers : MixCleanup(c)
    \/ \E c \in Consumers : MixNext(c)
    \/ \E r \in Producers : MixReaderPut(r)
    \/ \E r \in Producers : MixReaderEnd(r)
    \/ \E r \in Producers : MixOnDone(r)
    \/ \E p \in Producers : CQPutResume(p)
    \/ \E c \in Consumers : CQGetResume(c)

InitMix == InitCommon /\ InitMixIter

SpecMixIter == InitMix /\ [][NextMixIter]_vars

NextStreamSplitter ==
    \/ \E r \in Producers : ReaderStart(r)
    \/ \E c \in Consumers : SplitAiter(c)
    \/ \E c \in Consumers : SplitCleanup(c)
    \/ \E c \in Consumers : SplitNext(c)
    \/ \E r \in Producers : SplitReaderPut(r)
    \/ \E r \in Producers : SplitReaderEnd(r)
    \/ \E p \in Producers : MQPutResume(p)
    \/ \E c \in Consumers : MQGetResume(c)

InitSplit == InitCommon /\ InitStreamSplitter

SpecStreamSplitter == InitSplit /\ [][NextStreamSplitter]_vars

\* ------------------------------------------------------ sanity checks
TypeOK ==
    /\ obj \in {"ClosableQueue", "MultiConsumerQueue", "_MixIter",
                "_StreamSplitter"}
    /\ pc \in [Tasks -> {"none", "idle", "start", "src", "put_wait",
                         "put_woken", "get_wait", "get_woken", "spin",
                         "cancel_req", "cancelled", "finished", "failed"}]
    /\ res \in [Tasks -> {"none", "True", "False", "item", "EndOfStream",
                          "IndexError", "AssertionError", "KeyError"}]
    /\ cq_closed \in BOOLEAN /\ mq_closed \in BOOLEAN
    /\ mix_tasks \subseteq Producers /\ cb \subseteq Producers
    /\ DOMAIN mq_offsets \subseteq 0..(MaxKeys - 1)

\* Event.wait() is never reached with the flag set and the loop test still
\* true: no task loops without yielding.
NoSpin == Scheduled

\* ============================================================== claims
Registered == {c \in Consumers : key[c] # NoKey}

\* The number of stream items behind consumer c's read position.
Pos(c) == regAt[c] + Len(seen[c])

Suspended(t) == pc[t] \in {"put_wait", "put_woken", "get_wait", "get_woken"}

\* C1: in _MixIter a reader task is cancelled only in a state where no
\* acquired handle remains unreleased.
C1_CancelOnlyWithoutHandles ==
    [][(\E r \in Producers : pc[r] # "cancel_req" /\ pc'[r] = "cancel_req")
          => (\A c \in Consumers : ~handle'[c])]_vars

\* C2: two consumers of one split that both registered before the source
\* was exhausted, and that have both read up to end-of-stream, have observed
\* the same sequence of items.
C2_BroadcastLaw ==
    obj = "_StreamSplitter" =>
        \A a, b \in Registered :
            (/\ regLive[a] /\ regLive[b]
             /\ res[a] = "EndOfStream" /\ res[b] = "EndOfStream")
            => seen[a] = seen[b]

\* C3: what a registered consumer's gets have returned is the run of the
\* stream that starts with the buffer as it was at its registration, without
\* gap or repeat, and the item it is to read next has not been trimmed: the
\* buffer is the stream from the first untrimmed item on.
C3_NoLostItems ==
    obj = "MultiConsumerQueue" =>
        /\ mq_queue = SubSeq(stream, trimmed + 1, Len(stream))
        /\ \A c \in Registered :
               /\ Pos(c) <= Len(stream)
               /\ seen[c] = SubSeq(stream, regAt[c] + 1, Pos(c))
               /\ trimmed <= Pos(c)

\* A consumer registered after items had been trimmed has read two or more
\* items while another registered consumer is behind it.
C3_Witness ==
    /\ obj = "MultiConsumerQueue"
    /\ \E a, b \in Registered :
           /\ Len(seen[a]) >= 2 /\ Len(seen[b]) >= 1
           /\ Pos(b) < Pos(a)
           /\ regAt[b] > 0

\* C4: a ClosableQueue of capacity c > 0 never holds more than c items.
C4_NeverOverCapacity ==
    (obj = "ClosableQueue" /\ cq_maxsize > 0) => Len(cq_queue) <= cq_maxsize

\* The queue is full again while a producer woken from its wait has still
\* to make its loop test, and another producer is suspended.
C4_Witness ==
    /\ obj = "ClosableQueue" /\ cq_maxsize > 0
    /\ Len(cq_queue) = cq_maxsize
    /\ \E p, q \in Producers :
           p # q /\ pc[p] = "put_woken" /\ pc[q] \in {"put_wait", "put_woken"}

\* C5: gets return the items in the order they were put and closing discards
\* none (the stream is what was delivered followed by what is buffered); the
\* end-of-stream marker is returned only by a closed, empty queue; no get is
\* suspended on a closed queue.
C5_FifoThenEndOfStream ==
    obj = "ClosableQueue" =>
        /\ stream = delivered \o cq_queue
        /\ \A c \in Consumers :
               /\ res[c] = "EndOfStream" => (cq_closed /\ cq_queue = <<>>)
               /\ cq_closed => pc[c] \notin {"get_wait", "spin"}

\* A closed queue has delivered the two or more items put into it and every
\* consumer's last get returned the end-of-stream marker.
C5_Witness ==
    /\ obj = "ClosableQueue" /\ cq_closed
    /\ Len(stream) >= 2 /\ delivered = stream
    /\ \A c \in Consumers : res[c] = "EndOfStream"

\* C6: on either queue a put that returns on a closed queue returns False
\* and enqueues nothing, whether it was called on the closed queue or was
\* suspended when the queue was closed; the buffer of a closed queue never
\* grows.
C6_ClosedPutDropsItem ==
    [][/\ cq_closed => Len(cq_queue') <= Len(cq_queue)
       /\ mq_closed => Len(mq_queue') <= Len(mq_queue)
       /\ \A p \in Producers :
              (/\ cq_closed \/ mq_closed
               /\ \/ pc[p] = "put_woken" /\ pc'[p] # "put_woken"
                  \/ pc[p] = "idle" /\ src'[p] # src[p])
              => /\ pc'[p] = "idle" /\ res'[p] = "False"
                 /\ stream' = stream
                 /\ cq_queue' = cq_queue /\ mq_queue' = mq_queue]_vars

\* A put suspended on a full MultiConsumerQueue has been woken by close and
\* has still to return.
C6_Witness ==
    /\ obj = "MultiConsumerQueue" /\ mq_closed
    /\ Len(mq_queue) >= mq_maxsize
    /\ \E p \in Producers : pc[p] = "put_woken"

\* C7: close leaves no task suspended on an event: once the queue is closed
\* every waiter has been woken and each of them returns, a put with False
\* and a get that finds the queue empty (as every get that was still waiting
\* does: a waiting get sees an empty queue) with the end-of-stream marker.
C7_CloseWakesAll ==
    /\ [](cq_closed => \A t \in Tasks : pc[t] \notin {"put_wait", "get_wait"})
    /\ [](\A c \in Consumers : pc[c] = "get_wait" => cq_queue = <<>>)
    /\ \A c \in Consumers :
           (cq_closed /\ pc[c] = "get_woken" /\ cq_queue = <<>>)
               ~> (pc[c] = "idle" /\ res[c] = "EndOfStream")
    /\ \A p \in Producers :
           (cq_closed /\ pc[p] = "put_woken")
               ~> (pc[p] = "idle" /\ res[p] = "False")
    /\ cq_closed ~> (\A t \in Tasks : ~Suspended(t))

\* Both consumers were suspended in get when the queue was closed.
C7_Witness ==
    /\ obj = "ClosableQueue" /\ cq_closed /\ cq_queue = <<>>
    /\ \A c \in Consumers : pc[c] = "get_woken"

\* C8: for every registered key, empty(key) is true exactly when
\* offset[key] >= buffer length, that is when qsize(key) is 0.
C8_EmptyIffCaughtUp ==
    \A k \in DOMAIN mq_offsets :
        /\ MQempty(k) <=> (mq_offsets[k] >= Len(mq_queue))
        /\ MQempty(k) <=> (MQqsize(k) = 0)

\* C9: with a consumer registered, the least registered offset is 0, and
\* the buffer length is the number of successful puts less the least number
\* of stream items behind a registered consumer's read position.
C9_TrimmedToSlowest ==
    (obj = "MultiConsumerQueue" /\ Registered # {}) =>
        /\ MinOffset(mq_offsets) = 0
        /\ \E c \in Registered :
               /\ \A d \in Registered : Pos(c) <= Pos(d)
               /\ Len(mq_queue) = Len(stream) - Pos(c)

\* Two consumers are registered at different offsets after items have been
\* trimmed, and the buffer is not empty.
C9_Witness ==
    /\ obj = "MultiConsumerQueue"
    /\ trimmed >= 1 /\ mq_queue # <<>>
    /\ \E a, b \in Registered : mq_offsets[key[a]] < mq_offsets[key[b]]

\* C10: every registered offset is between 0 and the buffer length, and no
\* get indexes outside the buffer.
C10_OffsetsInBuffer ==
    /\ \A k \in DOMAIN mq_offsets :
           0 <= mq_offsets[k] /\ mq_offsets[k] <= Len(mq_queue)
    /\ \A c \in Consumers : res[c] # "IndexError"

\* On a closed queue one consumer has read to the end of a buffer of two
\* items and another has read nothing.
C10_Witness ==
    /\ obj = "MultiConsumerQueue" /\ mq_closed
    /\ Len(mq_queue) >= 2
    /\ \E a, b \in Registered :
           /\ mq_offsets[key[a]] = Len(mq_queue)
           /\ mq_offsets[key[b]] = 0

\* A consumer's step that can shorten the shared buffer: it unregisters, or
\* its get returns an item.
Unregisters(c) == key[c] # NoKey /\ key'[c] = NoKey

GetsItem(c) == key[c] # NoKey /\ Len(seen'[c]) = Len(seen[c]) + 1

\* C11: the buffer of a MultiConsumerQueue of capacity >= 1 never holds more
\* than capacity items.  A put is suspended only while the buffer is full and
\* the queue open; a suspended put that completes with an append does so on a
\* buffer below capacity, and the buffer gets shorter only in a step where a
\* consumer unregisters or a get returns an item; a waiting put is woken only
\* by such a step or by close.  A register changes neither the buffer nor
\* any put's position.
C11_BufferWithinCapacity ==
    /\ [](obj = "MultiConsumerQueue" =>
             /\ mq_maxsize >= 1 /\ Len(mq_queue) <= mq_maxsize
             /\ \A p \in Producers :
                    pc[p] = "put_wait" => (MQfull /\ ~mq_closed))
    /\ [][obj = "MultiConsumerQueue" =>
             /\ \A p \in Producers :
                    /\ (pc[p] \in {"put_wait", "put_woken"} /\ pc'[p] = "idle")
                       => \/ /\ res'[p] = "True"
                             /\ pc[p] = "put_woken"
                             /\ Len(mq_queue) < mq_maxsize
                             /\ mq_queue' = Append(mq_queue, arg[p])
                          \/ /\ res'[p] = "False" /\ mq_closed
                             /\ mq_queue' = mq_queue
                    /\ (pc[p] = "put_wait" /\ pc'[p] # "put_wait")
                       => /\ pc'[p] = "put_woken"
                          /\ \/ ~mq_closed /\ mq_closed'
                             \/ \E c \in Consumers : Unregisters(c) \/ GetsItem(c)
             /\ Len(mq_queue') < Len(mq_queue)
                    => \E c \in Consumers : Unregisters(c) \/ GetsItem(c)
             /\ (\E c \in Consumers : key[c] = NoKey /\ key'[c] # NoKey)
                    => /\ mq_queue' = mq_queue
                       /\ \A p \in Producers : pc'[p] = pc[p]]_vars

\* An open queue is full again (items were trimmed before) and a put that was
\* suspended on it has been woken by a get that did not shorten the buffer.
C11_Witness ==
    /\ obj = "MultiConsumerQueue" /\ ~mq_closed
    /\ MQfull /\ trimmed >= 1
    /\ \E p \in Producers : pc[p] = "put_woken"
    /\ \E a, b \in Registered : mq_offsets[key[a]] > 0 /\ mq_offsets[key[b]] = 0

\* C12: unregister(key) removes key's offset and drops from the head of the
\* buffer exactly the items every remaining consumer has read, as many as the
\* least remaining offset (none when no consumer remains); the remaining
\* offsets keep pointing at the same items.  A put suspended on the queue is
\* woken; when items were dropped the buffer is below capacity and the put's
\* next run appends its item, and when some remaining consumer has not read
\* the head item the buffer is unchanged, still full, and the put's next run
\* suspends it again without appending.
C12_UnregisterTrims ==
    [][obj = "MultiConsumerQueue" =>
         /\ \A c \in Consumers :
                Unregisters(c) =>
                    LET rem == DOMAIN mq_offsets \ {key[c]}
                        n == Len(mq_queue) - Len(mq_queue')
                    IN  /\ DOMAIN mq_offsets' = rem
                        /\ n >= 0
                        /\ mq_queue' = SubSeq(mq_queue, n + 1, Len(mq_queue))
                        /\ \A j \in rem : /\ mq_offsets[j] >= n
                                           /\ mq_offsets'[j] = mq_offsets[j] - n
                        /\ rem # {} => \E j \in rem : mq_offsets[j] = n
                        /\ rem = {} => n = 0
                        /\ (\E j \in rem : mq_offsets[j] = 0)
                               => mq_queue' = mq_queue
                        /\ \A p \in Producers :
                               pc[p] \in {"put_wait", "put_woken"} =>
                                   /\ pc'[p] = "put_woken"
                                   /\ (n > 0 /\ ~mq_closed) => ~MQfull'
                                   /\ n = 0 => MQfull' = MQfull
         /\ \A p \in Producers :
                (pc[p] = "put_woken" /\ pc'[p] # "put_woken" /\ ~mq_closed) =>
                    IF MQfull
                    THEN pc'[p] = "put_wait" /\ mq_queue' = mq_queue
                    ELSE pc'[p] = "idle" /\ mq_queue' = Append(mq_queue, arg[p])
      ]_vars

\* A consumer has unregistered while another remains, items have been
\* dropped, and a put that was suspended on the full buffer has been woken
\* with the buffer below capacity.
C12_Witness ==
    /\ obj = "MultiConsumerQueue" /\ ~mq_closed
    /\ mq_keys >= 2 /\ Cardinality(Registered) = 1
    /\ trimmed >= 1 /\ ~MQfull
    /\ \E p \in Producers : pc[p] = "put_woken"

\* C13: a register of a key that is in the offsets map fails (the assert),
\* an unregister or a query of a key that is not in it fails (KeyError);
\* the failing call returns at once and changes neither the offsets map nor
\* the buffer.  No registration of a registered key succeeds: a consumer
\* gets a key only if the key was not in the map, with offset 0, and the
\* keys in the map are the keys the consumers hold, each held once.
C13_KeyErrorsChangeNothing ==
    /\ [](obj = "MultiConsumerQueue" =>
             /\ DOMAIN mq_offsets = {key[c] : c \in Registered}
             /\ \A a, b \in Registered : key[a] = key[b] => a = b)
    /\ [][obj = "MultiConsumerQueue" =>
             \A c \in Consumers :
                 /\ (res'[c] \in {"AssertionError", "KeyError"} /\ res'[c] # res[c])
                        => /\ mq_offsets' = mq_offsets /\ mq_queue' = mq_queue
                           /\ pc' = pc /\ key' = key
                           /\ mq_event_full' = mq_event_full
                           /\ mq_event_empty' = mq_event_empty
                 /\ (key'[c] # key[c] /\ key'[c] # NoKey)
                        => /\ key'[c] \notin DOMAIN mq_offsets
                           /\ mq_offsets'[key'[c]] = 0
                           /\ res'[c] = res[c]
                 /\ (mq_keys' # mq_keys /\ mq_keys \in DOMAIN mq_offsets)
                        => mq_offsets' = mq_offsets /\ mq_queue' = mq_queue]_vars

\* A register of a registered key and a call with an unregistered key have
\* both failed on a queue that holds items and has a consumer that has read
\* some of them.
C13_Witness ==
    /\ obj = "MultiConsumerQueue"
    /\ mq_queue # <<>>
    /\ \E k \in DOMAIN mq_offsets : mq_offsets[k] > 0
    /\ \E c, d \in Consumers :
           res[c] = "AssertionError" /\ res[d] = "KeyError"

\* A reader task that is done: it completed, its source raised, or it was
\* cancelled.
Done(r) == pc[r] \in {"finished", "failed", "cancelled"}

\* C14: once a _MixIter has handed out a handle and no handle is held any
\* more, every reader task is done or has its cancellation requested: none
\* is left reading or suspended in put.  A task whose cancellation is
\* requested is ready to run, and its run leaves it cancelled.
C14_ReleaseCancelsReaders ==
    /\ []((obj = "_MixIter" /\ ~mix_streams /\ \A c \in Consumers : ~handle[c])
             => \A r \in Producers : Done(r) \/ pc[r] = "cancel_req")
    /\ [](\A r \in Producers :
              pc[r] = "cancel_req" => ENABLED TaskCancelled(r))
    /\ [][\A r \in Producers :
              (pc[r] = "cancel_req" /\ pc'[r] # pc[r]) => pc'[r] = "cancelled"]_vars

\* The only handle was released with the merge not drained: one reader was
\* cancelled while suspended in put and the other before it ended.
C14_Witness ==
    /\ obj = "_MixIter" /\ ~mix_streams
    /\ \A c \in Consumers : ~handle[c]
    /\ \A r \in Producers : pc[r] = "cancelled"
    /\ cq_queue # <<>>
    /\ \E r \in Producers : src[r] # <<>>

\* The reader tasks whose done callback has not run yet.
Unfinished == {r \in Producers : ~Done(r) \/ r \in cb}

\* C15: the shared queue of a _MixIter is closed exactly when the done
\* callback of the last of its N reader tasks has run, however each task
\* ended: _done counts the tasks whose callback has not run, a closed queue
\* means every task is done, and with every task done and no callback left to
\* run the queue is closed; a scheduled callback is ready to run.  The queue
\* is closed once: by the step that takes _done from 1 to 0, on an open
\* queue, and it stays closed.
C15_ClosedWhenLastReaderDone ==
    /\ [](obj = "_MixIter" =>
             /\ mix_done = Cardinality(Unfinished)
             /\ cq_closed <=> Unfinished = {}
             /\ cq_closed => \A r \in Producers : Done(r)
             /\ \A r \in cb : Done(r) /\ ENABLED MixOnDone(r))
    /\ [][obj = "_MixIter" =>
             /\ cq_closed => cq_closed'
             /\ (mix_done' # mix_done /\ mix_done' <= 0)
                    => (~cq_closed /\ cq_closed' /\ mix_done = 1)
             /\ (~cq_closed /\ cq_closed')
                    => (mix_done = 1 /\ mix_done' = 0)]_vars

\* The queue has been closed after one reader's source raised and the other
\* reader was cancelled.
C15_Witness ==
    /\ obj = "_MixIter" /\ cq_closed
    /\ \E r, q \in Producers : pc[r] = "failed" /\ pc[q] = "cancelled"

\* The items of producer p's source among the items of seq, in seq's order.
ItemsOf(seq, p) == SelectSeq(seq, LAMBDA x : x \div 10 = Tag(p))

\* No reader task has been cancelled.
NoCancel == \A r \in Producers : pc[r] \notin {"cancel_req", "cancelled"}

\* C16: in a _MixIter a source that raises fails nothing else.  A reader
\* that ended, by exhaustion or by its source raising, has put every item its
\* source yielded, and the queue loses none; the task of a source that raised
\* is counted in _done like any other; a consumer gets an item or the
\* end-of-stream marker, never an error; the marker comes only from the
\* closed, drained queue, and, no task having been cancelled, only after
\* every item of every source was delivered; no get stays suspended once all
\* tasks are counted, and a woken get is ready to run.
C16_FailingSourceIsContained ==
    obj = "_MixIter" =>
        /\ \A r \in Producers :
               /\ pc[r] = "failed" => srcFails[r]
               /\ pc[r] \in {"finished", "failed"}
                      => ItemsOf(stream, r) = source[r]
        /\ stream = delivered \o cq_queue
        /\ mix_done = Cardinality(Unfinished)
        /\ \A c \in Consumers :
               /\ res[c] \in {"none", "item", "EndOfStream"}
               /\ res[c] = "EndOfStream"
                      => /\ cq_closed /\ cq_queue = <<>> /\ Unfinished = {}
                         /\ NoCancel => \A r \in Producers :
                                            ItemsOf(delivered, r) = source[r]
               /\ Unfinished = {} => pc[c] # "get_wait"
               /\ pc[c] = "get_woken" => ENABLED CQGetResume(c)

\* A source raised after its item, the other source was read to its end,
\* and a consumer has received all their items and then the end-of-stream
\* marker.
C16_Witness ==
    /\ obj = "_MixIter" /\ NoCancel
    /\ \E r, q \in Producers :
           /\ pc[r] = "failed" /\ source[r] # <<>>
           /\ pc[q] = "finished" /\ Len(source[q]) >= 2
    /\ \E c \in Consumers : res[c] = "EndOfStream" /\ Len(seen[c]) >= 3

\* The set of the items of a sequence.
Range(seq) == {seq[i] : i \in DOMAIN seq}

\* Every item of every source, and their number.
AllItems == UNION {Range(source[p]) : p \in Producers}

TotalLen == Len(source["p1"]) + Len(source["p2"])

NonFailing == \A p \in Producers : ~srcFails[p]

\* C17: with non-failing sources and no reader cancelled, a consumer that
\* has read a _MixIter up to the end-of-stream marker, the other consumer
\* having read nothing, has received as many items as the sources hold, and
\* the items of each source among them are that source, in its order.
C17_MergeIsComplete ==
    \A c \in Consumers :
        (/\ obj = "_MixIter" /\ NonFailing /\ NoCancel
         /\ res[c] = "EndOfStream"
         /\ \A d \in Consumers \ {c} : seen[d] = <<>>)
        => /\ Len(seen[c]) = TotalLen
           /\ \A p \in Producers : ItemsOf(seen[c], p) = source[p]

\* One consumer alone has read the merge of two non-empty sources to the
\* end, an item of the second source coming before the last item of the
\* first.
C17_Witness ==
    /\ obj = "_MixIter" /\ NonFailing /\ NoCancel
    /\ res["c1"] = "EndOfStream" /\ seen["c2"] = <<>>
    /\ Len(seen["c1"]) >= 3
    /\ Len(source["p1"]) >= 2 /\ source["p2"] # <<>>
    /\ seen["c1"][Len(seen["c1"])] \in Range(source["p1"])

\* C18: with non-failing sources and no reader cancelled, when both
\* consumers of a _MixIter have read up to the end-of-stream marker, every
\* source item has been received by exactly one of them: what they received
\* has no item in common, is every item of the sources, and counts as many
\* items as the sources hold; each consumer sees the items of a source in
\* that source's order.
C18_CompetitionLaw ==
    (/\ obj = "_MixIter" /\ NonFailing /\ NoCancel
     /\ \A c \in Consumers : res[c] = "EndOfStream")
    => /\ Range(seen["c1"]) \cap Range(seen["c2"]) = {}
       /\ Range(seen["c1"]) \cup Range(seen["c2"]) = AllItems
       /\ Len(seen["c1"]) + Len(seen["c2"]) = TotalLen
       /\ \A p \in Producers : ItemsOf(delivered, p) = source[p]

\* Both consumers have read to the end and each has received items.
C18_Witness ==
    /\ obj = "_MixIter" /\ NonFailing /\ NoCancel
    /\ \A c \in Consumers : res[c] = "EndOfStream" /\ seen[c] # <<>>
    /\ TotalLen >= 3

\* C19: the reader tasks of a _MixIter are created once, all by the first
\* __aiter__ (the one that finds _streams), and a task is never created
\* again; the items of a source are taken only by its task.  Once a consumer
\* has received the end-of-stream marker the queue stays closed and empty,
\* and a read on a handle acquired then returns the marker in the same run,
\* without suspending.
C19_ReiterationEndsAtOnce ==
    [][obj = "_MixIter" =>
         /\ \A r \in Producers :
                /\ (pc[r] # "start" /\ pc'[r] = "start")
                       => /\ pc[r] = "none" /\ mix_streams /\ ~mix_streams'
                          /\ \E c \in Consumers : ~handle[c] /\ handle'[c]
                /\ pc[r] # "none" => pc'[r] # "none"
                /\ src'[r] # src[r] => pc[r] = "src"
         /\ ~mix_streams => ~mix_streams'
         /\ (\E d \in Consumers : res[d] = "EndOfStream")
                => /\ cq_closed' /\ cq_queue' = <<>>
                   /\ \A c \in Consumers :
                          /\ pc[c] = "idle" => pc'[c] = "idle"
                          /\ pc'[c] \in {"idle", "get_woken"}
                          /\ (pc[c] = "get_woken" /\ pc'[c] # pc[c])
                                 => res'[c] = "EndOfStream"
                          /\ res'[c] # res[c] => res'[c] = "EndOfStream"]_vars

\* The first consumer read the whole merge and released its handle; the
\* second, whose handle was acquired after that, has read the end-of-stream
\* marker and nothing else.
C19_Witness ==
    /\ obj = "_MixIter" /\ NoCancel
    /\ ~handle["c1"] /\ handle["c2"] /\ mix_running = 1
    /\ res["c1"] = "EndOfStream" /\ Len(seen["c1"]) >= 2
    /\ res["c2"] = "EndOfStream" /\ seen["c2"] = <<>>

\* C20: a _StreamSplitter has no reader task before its first registration
\* and one from then on: the task is created by the registration that finds
\* _running at 0, which is the first, and no later registration creates a
\* task, whether the source has been consumed or every consumer has left;
\* no other task is ever created.
C20_OneReaderTask ==
    /\ [](obj = "_StreamSplitter" =>
             /\ sp_running \in {0, 1}
             /\ (pc["p1"] = "none") <=> (mq_keys = 0)
             /\ (pc["p1"] = "none") <=> (sp_running = 0)
             /\ pc["p2"] = "none")
    /\ [][obj = "_StreamSplitter" =>
             /\ (pc["p1"] # "start" /\ pc'["p1"] = "start")
                    => /\ pc["p1"] = "none" /\ mq_keys = 0 /\ mq_keys' = 1
                       /\ \E c \in Consumers : ~handle[c] /\ handle'[c]
             /\ pc["p1"] # "none" => pc'["p1"] # "none"
             /\ sp_running' >= sp_running]_vars

\* The source has been consumed and its task has ended, consumers have come
\* and gone, and a consumer has registered again after that.
C20_Witness ==
    /\ obj = "_StreamSplitter"
    /\ pc["p1"] = "finished" /\ Len(stream) >= 2
    /\ mq_keys = MaxKeys
    /\ \E c \in Consumers : Registered = {c} /\ handle[c] /\ ~regLive[c]

\* C21: in a _StreamSplitter, once a consumer has registered and no consumer
\* holds a handle any more, the reader task is done or has its cancellation
\* requested: it is not left reading its source or suspended in put.
C21_LastLeaveCancelsReader ==
    (obj = "_StreamSplitter" /\ mq_keys > 0 /\ \A c \in Consumers : ~handle[c])
        => (Done("p1") \/ pc["p1"] = "cancel_req")

\* C22: in a _StreamSplitter the queue is closed exactly when the reader task
\* has ended (source exhausted or raised); on the closed queue no consumer
\* waits in get, a woken get can run, and every get of a registered consumer
\* returns at once: the next item of its backlog while it has one, then
\* end-of-stream.
C22_EndOfSourceReachesConsumers ==
    [][/\ mq_closed' <=> Done("p1")'
       /\ mq_closed' => \A c \in Consumers : pc'[c] # "get_wait"
       /\ \A c \in Consumers :
            /\ (mq_closed /\ pc[c] = "get_woken") => ENABLED MQGetResume(c)
            /\ (mq_closed /\ (SplitNext(c) \/ MQGetResume(c)))
                  => /\ pc'[c] = "idle"
                     /\ IF Pos(c) < Len(stream)
                        THEN /\ res'[c] = "item"
                             /\ seen'[c] = Append(seen[c], stream[Pos(c) + 1])
                        ELSE /\ res'[c] = "EndOfStream"
                             /\ seen'[c] = seen[c]]_vars

\* Both consumers read a failed or exhausted source of full length to its end.
C22_Witness ==
    /\ obj = "_StreamSplitter" /\ mq_closed
    /\ Len(stream) = MaxSrcLen
    /\ \A c \in Consumers :
          key[c] # NoKey /\ res[c] = "EndOfStream" /\ seen[c] = stream

\* C23: close is idempotent on ClosableQueue and MultiConsumerQueue: every
\* close leaves the queue closed with both events set and no task waiting on
\* an event; a close of a closed queue changes at most the event flags
\* (buffer, closed flag, offsets, task positions and results stay), and a
\* close right after a close (both events still set) changes nothing at all,
\* so a second close yields the very state of the first.
C23_CloseIsIdempotent ==
    [][/\ CQCloseCall
            => /\ cq_closed' /\ cq_event_full' /\ cq_event_empty'
               /\ \A t \in Tasks : pc'[t] \notin {"put_wait", "get_wait"}
               /\ cq_closed
                    => UNCHANGED <<pc, arg, res, cq_queue, cq_closed, histVars>>
               /\ (cq_closed /\ cq_event_full /\ cq_event_empty)
                    => UNCHANGED vars
       /\ MQCloseCall
            => /\ mq_closed' /\ mq_event_full' /\ mq_event_empty'
               /\ \A t \in Tasks : pc'[t] \notin {"put_wait", "get_wait"}
               /\ mq_closed
                    => UNCHANGED <<pc, arg, res, mq_queue, mq_offsets, mq_keys,
                                  mq_closed, key, histVars>>
               /\ (mq_closed /\ mq_event_full /\ mq_event_empty)
                    => UNCHANGED vars]_vars

\* A closed MultiConsumerQueue whose _event_empty a resumed put has cleared
\* since: the next close acts on the flags of a queue that is closed already.
C23_Witness ==
    /\ obj = "MultiConsumerQueue" /\ mq_closed /\ ~mq_event_empty
    /\ mq_queue # <<>>
    /\ \E p \in Producers : res[p] = "False"

\* C24: _MixIter._running is a reference count: it equals the number of
\* handles acquired by __aiter__ and not yet released by _cleanup, and it is
\* never negative.
C24_RunningCountsHandles ==
    obj = "_MixIter"
        => /\ mix_running = Cardinality({c \in Consumers : handle[c]})
           /\ mix_running >= 0

\* C25: a get(key) issued while the consumer has an unread item
\* (qsize(key) > 0) returns the item at offset[key] without waiting and
\* advances the offset by 1, and no consumer that has an unread item is
\* waiting in get.
C25_GetWaitsOnlyWhenCaughtUp ==
    [][\A c \in Consumers :
          /\ (MQGetCall(c) /\ MQqsize(key[c]) > 0)
                => /\ pc'[c] = "idle" /\ res'[c] = "item"
                   /\ seen'[c] = Append(seen[c],
                                        mq_queue[mq_offsets[key[c]] + 1])
                   /\ Pos(c)' = Pos(c) + 1
          /\ (key'[c] # NoKey /\ pc'[c] = "get_wait")
                => Len(mq_queue') - mq_offsets'[key'[c]] = 0]_vars

\* The gets waiting on _event_full, and those of them a step wakes.
GetWaiters == {c \in Consumers : pc[c] = "get_wait"}

Woken == {c \in GetWaiters : pc'[c] = "get_woken"}

SuccessfulPut == Len(cq_queue') = Len(cq_queue) + 1

\* C26 (as stated): a successful put on a ClosableQueue on which two or more
\* gets are suspended wakes exactly one of them; the others are not woken.
C26_PutWakesOneGet ==
    [][(SuccessfulPut /\ Cardinality(GetWaiters) >= 2)
          => Cardinality(Woken) = 1]_vars

\* C26 (amended): a successful put wakes every get suspended on the queue;
\* a woken get that runs while the item is there returns it and removes it,
\* and one that runs on the empty open queue returns nothing and suspends
\* again, so one put is returned by exactly one get.
C26_PutWakesEveryGet ==
    [][/\ SuccessfulPut => Woken = GetWaiters
       /\ \A c \in Consumers :
            CQGetResume(c)
              => \/ /\ cq_queue # <<>>
                    /\ pc'[c] = "idle" /\ res'[c] = "item"
                    /\ cq_queue' = Tail(cq_queue)
                    /\ delivered' = Append(delivered, Head(cq_queue))
                    /\ \A d \in Consumers \ {c} : seen'[d] = seen[d]
                 \/ /\ cq_queue = <<>> /\ ~cq_closed
                    /\ pc'[c] = "get_wait"
                    /\ UNCHANGED <<res, cq_queue, delivered, seen>>
                 \/ /\ cq_queue = <<>> /\ cq_closed
                    /\ pc'[c] = "idle" /\ res'[c] = "EndOfStream"
                    /\ UNCHANGED <<cq_queue, delivered, seen>>]_vars

\* One item has been put on the queue both consumers were suspended on, and
\* both have been woken.
C26_Witness ==
    /\ obj = "ClosableQueue" /\ ~cq_closed
    /\ Len(stream) = 1 /\ Len(cq_queue) = 1
    /\ \A c \in Consumers : pc[c] = "get_woken"

\* No task of the ClosableQueue is ready to run.
Quiescent == \A t \in Tasks : pc[t] \notin {"put_woken", "get_woken"}

\* C27: the ClosableQueue misses no wakeup.  A task waiting in get has an
\* empty, open queue before it and a task waiting in put a full, open one
\* (in every state, so also when no task is runnable); the event a task waits
\* on is clear and no task loops on a set event; a put that enqueues and a
\* close leave no get waiting, a get that dequeues and a close leave no put
\* waiting; a woken task can always run, and, the event loop running every
\* woken task, it does run.
C27_NoMissedWakeup ==
    /\ [][/\ \A c \in Consumers :
               pc'[c] = "get_wait"
                  => (cq_queue' = <<>> /\ ~cq_closed' /\ ~cq_event_full')
          /\ \A p \in Producers :
               pc'[p] = "put_wait"
                  => (CQfull' /\ ~cq_closed' /\ ~cq_event_empty')
          /\ \A t \in Tasks : pc'[t] # "spin"
          /\ (SuccessfulPut \/ (~cq_closed /\ cq_closed'))
               => \A c \in Consumers : pc'[c] # "get_wait"
          /\ (Len(cq_queue') < Len(cq_queue) \/ (~cq_closed /\ cq_closed'))
               => \A p \in Producers : pc'[p] # "put_wait"
          /\ \A c \in Consumers :
               pc[c] = "get_woken" => ENABLED CQGetResume(c)
          /\ \A p \in Producers :
               pc[p] = "put_woken" => ENABLED CQPutResume(p)]_vars
    /\ \A t \in Tasks :
          (pc[t] \in {"put_woken", "get_woken"})
              ~> (pc[t] \notin {"put_woken", "get_woken"})

\* No task is runnable, a get waits on the empty open queue on which items
\* have been put and delivered, and two or more producers and consumers
\* have used the queue.
C27_Witness ==
    /\ obj = "ClosableQueue" /\ Quiescent /\ ~cq_closed
    /\ \E c \in Consumers : pc[c] = "get_wait"
    /\ Len(delivered) >= 2
    /\ \A c \in Consumers : seen[c] # <<>>
====
